---- MODULE Spec2Model ----
(***************************************************************************)
(* Model of plex_generate_previews.py: the main script (setup checks,      *)
(* accelerator detection, purge of the temp root, run()), the worker pool  *)
(* of run(), and process_item / generate_images as executed by each pool   *)
(* worker.  Every filesystem call and every external process is one step,  *)
(* so that the interleavings of the pool's workers are those of the code.  *)
(***************************************************************************)
EXTENDS Integers, FiniteSets, Sequences, TLC

\* ------------------------------------------------------------- bounds
MaxPool == 2       \* largest CPU_THREADS + GPU_THREADS explored
MaxItems == 2      \* largest number of items a library section returns
MaxFrames == 1     \* largest number of frames one transcoder run writes
MaxExt == 1        \* largest number of accelerated ffmpeg processes of other programs

\* The bundle hashes the catalog hands out.  Nothing in the program keeps two
\* items from carrying the same one.
Hashes == {"a1b2", "c3d4"}
Workers == 1..MaxPool

NoHash == ""       \* no hash at hand (the empty string works as one too)
NoQuery == -2      \* the accelerated-process query was not made
EmptyQuery == -1   \* gpustat returned an empty collection
NoExit == -1       \* the transcoder has not ended

Max(a, b) == IF a >= b THEN a ELSE b

VARIABLES
    PLEX_URL,      \* line 31
    PLEX_TOKEN,    \* line 34
    mediaRoot,     \* what exists at PLEX_LOCAL_MEDIA_PATH (line 43): "absent",
                   \* "bare" (the directory without a localhost folder) or "ok"
    CPU_THREADS,   \* line 65
    GPU_THREADS,   \* line 62
    GPU,           \* line 93 / 438: "Unset", "None", "NVIDIA" or "AMD" (a render device path)
    mainpc,        \* position of the main script
    exitCode,      \* process exit status, -1 while running
    runExc,        \* an exception is propagating out of run()
    futures,       \* futures of the current pool, in submission order
    awaitIdx,      \* index of the future run() is waiting on
    wk,            \* per pool worker: position in process_item and its locals
    tmpRoot,       \* TMP_FOLDER exists
    tmpDirs,       \* hashes h for which TMP_FOLDER/<h> exists
    imgs,          \* per hash: img-%06d.jpg files in TMP_FOLDER/<h>
    idxDirs,       \* hashes whose .../Contents/Indexes directory exists
    bifs,          \* hashes whose index-sd.bif exists
    enc,           \* one call of the rename loop and of generate_bif taken alone:
                   \* its arguments, its locals and the file it writes
    prog           \* one run of the progress loop of generate_images taken alone

vars == <<PLEX_URL, PLEX_TOKEN, mediaRoot, CPU_THREADS, GPU_THREADS, GPU, mainpc, exitCode, runExc, futures,
          awaitIdx, wk, tmpRoot, tmpDirs, imgs, idxDirs, bifs, enc, prog>>

cfgVars == <<PLEX_URL, PLEX_TOKEN, mediaRoot, CPU_THREADS, GPU_THREADS>>
mainVars == <<mainpc, exitCode, runExc, awaitIdx>>
fsVars == <<tmpRoot, tmpDirs, imgs, idxDirs, bifs>>
unitVars == <<enc, prog>>

\* in a run of the whole program the two functions taken alone are not followed
NoUnit == [pc |-> "off"]

\* The file attribute of a MediaPart as the catalog gives it: a path that
\* holds the prefix PLEX_VIDEOS_PATH_MAPPING (line 59), or one that does not
\* (always the case when no mapping is configured).
CatalogPaths == {"remote/ep1.mkv", "other/ep1.mkv"}

\* line 165: video_file_param.replace(PLEX_VIDEOS_PATH_MAPPING,
\* PLEX_LOCAL_VIDEOS_PATH_MAPPING)
ResolvePath(p) == IF p = "remote/ep1.mkv" THEN "local/ep1.mkv" ELSE p

\* the paths at which this machine may or may not have a file
LocalPaths == CatalogPaths \cup {ResolvePath(p) : p \in CatalogPaths}

\* src: set when the part ends as 'file not found' (line 339): "missing" when
\* no file is at the resolved path either, "unseen" when one is
\* more: set when the part is outside the filter (line 333): the tree fetched
\* at line 327 holds, after this part, a part that has a hash, is inside the
\* filter, has its source file and has no container
IdleWorker ==
    [pc |-> "idle", job |-> 0, h |-> NoHash, hw |-> FALSE,
     seen |-> NoQuery, exit |-> NoExit, found |-> 0, res |-> "none",
     src |-> "none", more |-> FALSE]

\* (variant: a pool one worker larger than configured)
PoolSizeTooBig == CPU_THREADS + GPU_THREADS + 1
\* line 409: ProcessPoolExecutor(max_workers=CPU_THREADS + GPU_THREADS)
PoolSize == CPU_THREADS + GPU_THREADS

\* Accelerated ffmpeg processes started by this run and still running: what the
\* vendor's process listing can see of this program (processes of other programs
\* are added by QueryResults).
HwRunning == Cardinality({w \in Workers : wk[w].pc = "run" /\ wk[w].hw})

Init ==
    /\ PLEX_URL \in {"", "http://localhost:32400"}
    /\ PLEX_TOKEN \in {"", "s3cr3t"}
    /\ mediaRoot \in {"absent", "bare", "ok"}
    /\ CPU_THREADS \in 0..MaxPool
    /\ GPU_THREADS \in 0..MaxPool
    /\ CPU_THREADS + GPU_THREADS <= MaxPool
    /\ GPU = "Unset"
    /\ mainpc = "import"
    /\ exitCode = -1
    /\ runExc = FALSE
    /\ futures = <<>>
    /\ awaitIdx = 0
    /\ wk = [w \in Workers |-> IdleWorker]
    /\ tmpRoot \in BOOLEAN
    /\ tmpDirs = {}
    /\ imgs = [h \in Hashes |-> 0]
    /\ idxDirs \in SUBSET Hashes
    /\ bifs \in SUBSET idxDirs
    /\ enc = NoUnit
    /\ prog = NoUnit

\* ------------------------------------------------------------ main script

\* lines 70-77: mediainfo and ffmpeg must be on PATH, else sys.exit(1)
ImportChecks ==
    /\ mainpc = "import"
    /\ \E toolsFound \in BOOLEAN :
         IF toolsFound
         THEN mainpc' = "checks" /\ exitCode' = exitCode
         ELSE mainpc' = "exit" /\ exitCode' = 1
    /\ UNCHANGED <<unitVars, cfgVars, GPU, runExc, futures, awaitIdx, wk, fsVars>>

\* (variant: the test of line 433 is left out)
SetupOkWithoutToken ==
    /\ mediaRoot # "absent"
    /\ mediaRoot = "ok"
    /\ PLEX_URL # ""
\* lines 419-435: the four tests that end in exit(1)
SetupOk ==
    /\ mediaRoot # "absent"    \* line 419
    /\ mediaRoot = "ok"        \* line 424
    /\ PLEX_URL # ""           \* line 429
    /\ PLEX_TOKEN # ""         \* line 433

\* lines 419-435: media root, its localhost folder, PLEX_URL, PLEX_TOKEN
MainChecks ==
    /\ mainpc = "checks"
    /\ IF SetupOk
       THEN mainpc' = "detect" /\ exitCode' = exitCode
       ELSE mainpc' = "exit" /\ exitCode' = 1
    /\ UNCHANGED <<unitVars, cfgVars, GPU, runExc, futures, awaitIdx, wk, fsVars>>

\* lines 438-445 with detect_gpu (95-130)
DetectGpu ==
    /\ mainpc = "detect"
    /\ GPU' \in {"None", "NVIDIA", "AMD"}
    /\ mainpc' = "purge"
    /\ UNCHANGED <<unitVars, cfgVars, exitCode, runExc, futures, awaitIdx, wk, fsVars>>

\* lines 447-451: rmtree(TMP_FOLDER) if present, makedirs(TMP_FOLDER)
PurgeStart ==
    /\ mainpc = "purge"
    /\ tmpRoot' = TRUE
    /\ tmpDirs' = {}
    /\ imgs' = [h \in Hashes |-> 0]
    /\ mainpc' = "run"
    /\ UNCHANGED <<unitVars, cfgVars, GPU, exitCode, runExc, futures, awaitIdx, wk, idxDirs, bifs>>

\* lines 395-404: a section of an unsupported type is skipped
RunSkipSection ==
    /\ mainpc = "run"
    /\ UNCHANGED <<unitVars, cfgVars, GPU, mainpc, exitCode, runExc, futures, awaitIdx, wk, fsVars>>

\* lines 395-410: the section's keys are listed, the pool is created and one
\* future per key is submitted; ProcessPoolExecutor rejects max_workers <= 0
RunSection ==
    /\ mainpc = "run"
    /\ \E n \in 0..MaxItems :
         IF PoolSize <= 0
         THEN /\ runExc' = TRUE
              /\ mainpc' = "final"
              /\ UNCHANGED <<futures, awaitIdx>>
         ELSE /\ futures' = [i \in 1..n |-> "pending"]
              /\ awaitIdx' = 1
              /\ mainpc' = "await"
              /\ UNCHANGED runExc
    /\ UNCHANGED <<unitVars, cfgVars, GPU, exitCode, wk, fsVars>>

\* line 395: no section is left, run() returns
RunReturn ==
    /\ mainpc = "run"
    /\ mainpc' = "final"
    /\ UNCHANGED <<unitVars, cfgVars, GPU, exitCode, runExc, futures, awaitIdx, wk, fsVars>>

\* lines 411-412: future.result() returns when the future is done and re-raises
\* the exception of a future that raised
AwaitResult ==
    /\ mainpc = "await"
    /\ awaitIdx <= Len(futures)
    /\ \/ /\ futures[awaitIdx] = "done"
          /\ awaitIdx' = awaitIdx + 1
          /\ UNCHANGED <<mainpc, runExc>>
       \/ /\ futures[awaitIdx] = "raised"
          /\ runExc' = TRUE
          /\ mainpc' = "shutdown"
          /\ UNCHANGED awaitIdx
    /\ UNCHANGED <<unitVars, cfgVars, GPU, exitCode, futures, wk, fsVars>>

\* line 411: every future has been waited on
AwaitEnd ==
    /\ mainpc = "await"
    /\ awaitIdx > Len(futures)
    /\ mainpc' = "shutdown"
    /\ UNCHANGED <<unitVars, cfgVars, GPU, exitCode, runExc, futures, awaitIdx, wk, fsVars>>

\* (variant: the pool is left with shutdown(wait=False))
PoolShutdownNoWait ==
    /\ mainpc = "shutdown"
    /\ futures' = <<>>
    /\ awaitIdx' = 0
    /\ mainpc' = IF runExc THEN "final" ELSE "run"
    /\ UNCHANGED <<unitVars, cfgVars, GPU, exitCode, runExc, wk, fsVars>>
\* line 409: leaving the with-block is shutdown(wait=True): it returns once
\* every submitted future has run; then the next section, or the exception
PoolShutdown ==
    /\ mainpc = "shutdown"
    /\ \A i \in 1..Len(futures) : futures[i] \in {"done", "raised"}
    /\ futures' = <<>>
    /\ awaitIdx' = 0
    /\ mainpc' = IF runExc THEN "final" ELSE "run"
    /\ UNCHANGED <<unitVars, cfgVars, GPU, exitCode, runExc, wk, fsVars>>

\* lines 453-455: the finally clause purges TMP_FOLDER; the process exits 0, or
\* 1 through the interpreter when an exception left run()
FinalPurge ==
    /\ mainpc = "final"
    /\ tmpRoot' = FALSE
    /\ tmpDirs' = {}
    /\ imgs' = [h \in Hashes |-> 0]
    /\ exitCode' = IF runExc THEN 1 ELSE 0
    /\ mainpc' = "exit"
    /\ UNCHANGED <<unitVars, cfgVars, GPU, runExc, futures, awaitIdx, wk, idxDirs, bifs>>

\* --------------------------------------------------------- pool workers

SetWorker(w, r) == wk' = [wk EXCEPT ![w] = r]

\* the future of worker w's job completes with status s and the worker is free
FinishJob(w, s) ==
    /\ futures' = [futures EXCEPT ![wk[w].job] = s]
    /\ wk' = [wk EXCEPT ![w] = IdleWorker]

\* the part is over (a continue statement, or the end of the loop body)
EndPart(w, h, r) == SetWorker(w, [wk[w] EXCEPT !.pc = "end", !.h = h, !.res = r])

\* (variant: the pool starts worker processes beyond max_workers)
TakeJobAnyWorker(w) ==
    /\ mainpc \in {"await", "shutdown"}
    /\ wk[w].pc = "idle"
    /\ \E i \in 1..Len(futures) :
         /\ futures[i] = "pending"
         /\ \A j \in 1..(i - 1) : futures[j] # "pending"
         /\ futures' = [futures EXCEPT ![i] = "running"]
         /\ SetWorker(w, [IdleWorker EXCEPT !.pc = "part", !.job = i])
    /\ UNCHANGED <<unitVars, cfgVars, GPU, mainVars, fsVars>>
\* lines 409-410, 322-329: a free worker of the pool takes the oldest pending
\* future and process_item fetches the item's tree from the catalog
TakeJob(w) ==
    /\ mainpc \in {"await", "shutdown"}
    /\ w <= PoolSize
    /\ wk[w].pc = "idle"
    /\ \E i \in 1..Len(futures) :
         /\ futures[i] = "pending"
         /\ \A j \in 1..(i - 1) : futures[j] # "pending"
         /\ futures' = [futures EXCEPT ![i] = "running"]
         /\ SetWorker(w, [IdleWorker EXCEPT !.pc = "part", !.job = i])
    /\ UNCHANGED <<unitVars, cfgVars, GPU, mainVars, fsVars>>

\* line 329: no MediaPart is left, process_item returns None
PI_LoopEnd(w) ==
    /\ wk[w].pc = "part"
    /\ FinishJob(w, "done")
    /\ UNCHANGED <<unitVars, cfgVars, GPU, mainVars, fsVars>>

\* line 330: the part has no hash attribute
PI_NoHash(w) ==
    /\ wk[w].pc = "part"
    /\ UNCHANGED vars

\* lines 332-333: sys.argv[1] is set and is not in the part's file path
PI_FilterMismatch(w) ==
    /\ wk[w].pc = "part"
    /\ \E more \in BOOLEAN : SetWorker(w, [wk[w] EXCEPT !.pc = "mismatch", !.more = more])
    /\ UNCHANGED <<unitVars, cfgVars, GPU, mainVars, futures, fsVars>>

\* (variant: line 334 is a pass, the part goes on to lines 335-352)
PI_FilterFallsThrough(w) ==
    /\ wk[w].pc = "mismatch"
    /\ \E h \in Hashes : SetWorker(w, [wk[w] EXCEPT !.pc = "idx", !.h = h])
    /\ UNCHANGED <<unitVars, cfgVars, GPU, mainVars, futures, fsVars>>
\* line 334: return, process_item is over
PI_FilterReturn(w) ==
    /\ wk[w].pc = "mismatch"
    /\ FinishJob(w, "done")
    /\ UNCHANGED <<unitVars, cfgVars, GPU, mainVars, fsVars>>

\* lines 336-338: the path given to os.path.isfile is media_file, the file
\* attribute as the catalog gives it
TestedPath(media_file) == media_file

\* lines 335-340: os.path.isfile(media_file) is false; files: the paths at
\* which this machine has a file
PI_FileMissing(w) ==
    /\ wk[w].pc = "part"
    /\ \E h \in Hashes, media_file \in CatalogPaths, files \in SUBSET LocalPaths :
         /\ TestedPath(media_file) \notin files
         /\ SetWorker(w, [wk[w] EXCEPT
                !.pc = "end", !.h = h, !.res = "Failed",
                !.src = IF ResolvePath(media_file) \in files THEN "unseen" ELSE "missing"])
    /\ UNCHANGED <<unitVars, cfgVars, GPU, mainVars, futures, fsVars>>

\* lines 342-346: bundle_hash[0] raises on an empty hash attribute
PI_BadHash(w) ==
    /\ wk[w].pc = "part"
    /\ EndPart(w, NoHash, "Failed")
    /\ UNCHANGED <<unitVars, cfgVars, GPU, mainVars, futures, fsVars>>

\* (variant: the lookup of line 352 is left out)
ContainerMissingAlways(h) == TRUE
\* line 352: not os.path.isfile(index_bif)
ContainerMissing(h) == h \notin bifs

\* lines 335-352: the source file exists; the paths are computed and the
\* container is looked up
PI_ContainerCheck(w) ==
    /\ wk[w].pc = "part"
    /\ \E h \in Hashes :
         IF ContainerMissing(h)
         THEN SetWorker(w, [wk[w] EXCEPT !.pc = "idx", !.h = h])
         ELSE EndPart(w, h, "Skipped")
    /\ UNCHANGED <<unitVars, cfgVars, GPU, mainVars, futures, fsVars>>

\* line 353: os.path.isdir(indexes_path)
PI_IdxCheck(w) ==
    /\ wk[w].pc = "idx"
    /\ SetWorker(w, [wk[w] EXCEPT !.pc = IF wk[w].h \in idxDirs THEN "tmp" ELSE "mkidx"])
    /\ UNCHANGED <<unitVars, cfgVars, GPU, mainVars, futures, fsVars>>

\* lines 354-355: os.makedirs(indexes_path) succeeds
PI_MkIdxOk(w) ==
    /\ wk[w].pc = "mkidx"
    /\ wk[w].h \notin idxDirs
    /\ idxDirs' = idxDirs \cup {wk[w].h}
    /\ SetWorker(w, [wk[w] EXCEPT !.pc = "tmp"])
    /\ UNCHANGED <<unitVars, cfgVars, GPU, mainVars, futures, tmpRoot, tmpDirs, imgs, bifs>>

\* lines 356-358: os.makedirs(indexes_path) raises OSError (also when another
\* job created the directory after line 353)
PI_MkIdxFail(w) ==
    /\ wk[w].pc = "mkidx"
    /\ EndPart(w, wk[w].h, "Failed")
    /\ UNCHANGED <<unitVars, cfgVars, GPU, mainVars, futures, fsVars>>

\* lines 360-361: os.path.isdir(tmp_path)
PI_TmpCheck(w) ==
    /\ wk[w].pc = "tmp"
    /\ SetWorker(w, [wk[w] EXCEPT !.pc = IF wk[w].h \in tmpDirs THEN "gi" ELSE "mktmp"])
    /\ UNCHANGED <<unitVars, cfgVars, GPU, mainVars, futures, fsVars>>

\* line 362: os.makedirs(tmp_path) succeeds (it creates TMP_FOLDER as well)
PI_MkTmpOk(w) ==
    /\ wk[w].pc = "mktmp"
    /\ wk[w].h \notin tmpDirs
    /\ tmpDirs' = tmpDirs \cup {wk[w].h}
    /\ tmpRoot' = TRUE
    /\ SetWorker(w, [wk[w] EXCEPT !.pc = "gi"])
    /\ UNCHANGED <<unitVars, cfgVars, GPU, mainVars, futures, imgs, idxDirs, bifs>>

\* lines 363-365: os.makedirs(tmp_path) raises OSError
PI_MkTmpFail(w) ==
    /\ wk[w].pc = "mktmp"
    /\ EndPart(w, wk[w].h, "Failed")
    /\ UNCHANGED <<unitVars, cfgVars, GPU, mainVars, futures, fsVars>>

\* ------------------------------------------------------- generate_images

\* (variant: <= where lines 201 and 208 compare with <)
AdmitInclusive(gpu, q, gt, ct) ==
    IF gpu = "NVIDIA" THEN q # EmptyQuery /\ (q <= gt \/ ct = 0)
    ELSE IF gpu = "AMD" THEN (q <= gt \/ ct = 0)
    ELSE FALSE
\* lines 196-216: the hardware path is taken (hw = True, -hwaccel flags inserted)
\* gpu: the detected accelerator; q: the observed count of accelerated ffmpeg
\* processes (EmptyQuery: gpustat's collection is empty, NoQuery: no accelerator)
Admit(gpu, q, gt, ct) ==
    IF gpu = "NVIDIA" THEN q # EmptyQuery /\ (q < gt \/ ct = 0)
    ELSE IF gpu = "AMD" THEN (q < gt \/ ct = 0)
    ELSE FALSE

\* lines 197-200, 207 with get_amd_ffmpeg_processes (133-148): what the
\* accelerated-process query can return
QueryResults(gpu) ==
    IF gpu = "NVIDIA" THEN {EmptyQuery} \cup {HwRunning + e : e \in 0..MaxExt}
    ELSE IF gpu = "AMD" THEN {HwRunning + e : e \in 0..MaxExt}
    ELSE {NoQuery}

\* lines 165-232: MediaInfo.parse, the process query or os.path.getsize raises
GI_SetupRaises(w) ==
    /\ wk[w].pc = "gi"
    /\ SetWorker(w, [wk[w] EXCEPT !.pc = "except_gi"])
    /\ UNCHANGED <<unitVars, cfgVars, GPU, mainVars, futures, fsVars>>

\* lines 165-232: the invocation is built and the admission decision is made
GI_Admit(w) ==
    /\ wk[w].pc = "gi"
    /\ \E q \in QueryResults(GPU) :
         SetWorker(w, [wk[w] EXCEPT !.pc = "popen", !.seen = q,
                                     !.hw = Admit(GPU, q, GPU_THREADS, CPU_THREADS)])
    /\ UNCHANGED <<unitVars, cfgVars, GPU, mainVars, futures, fsVars>>

\* line 234: subprocess.Popen starts the transcoder
GI_Popen(w) ==
    /\ wk[w].pc = "popen"
    /\ SetWorker(w, [wk[w] EXCEPT !.pc = "run"])
    /\ UNCHANGED <<unitVars, cfgVars, GPU, mainVars, futures, fsVars>>

\* lines 236-257: the diagnostic stream is read to its end, i.e. until the
\* transcoder has ended with some exit status, having written some frames
\* (none, and a non-zero status, when its output directory is gone).  The
\* process no longer runs on the accelerator: hw and the observed count are
\* read by nothing after this point and are dropped from the worker's state
GI_ReadStderr(w) ==
    /\ wk[w].pc = "run"
    /\ \E status \in {0, 1}, n \in 0..MaxFrames :
         /\ (wk[w].h \notin tmpDirs) => (status = 1 /\ n = 0)
         /\ imgs' = [imgs EXCEPT ![wk[w].h] = Max(@, n)]
         /\ SetWorker(w, [wk[w] EXCEPT !.pc = "rename", !.exit = status,
                                       !.hw = FALSE, !.seen = NoQuery])
    /\ UNCHANGED <<unitVars, cfgVars, GPU, mainVars, futures, tmpRoot, tmpDirs, idxDirs, bifs>>

\* (variant: the final log call reads hw and returns)
FinalLogReturns == FALSE
\* line 277: the f-string of the final log call reads the name HW, which is
\* bound nowhere (the local is hw): evaluating it raises NameError
FinalLogRaises == TRUE

\* lines 259-278: every img*.jpg found is renamed to its timestamp, then the
\* final log call; generate_images has no other way to return.  "bif" is the
\* call of generate_bif at line 376, which process_item reaches only when
\* generate_images returns: as the log call raises on every run, no step of
\* generate_bif or of its handlers (lines 375-385) is ever taken in a run of
\* the program, and Next has none.
GI_RenameAndLog(w) ==
    /\ wk[w].pc = "rename"
    /\ imgs' = [imgs EXCEPT ![wk[w].h] = 0]
    /\ SetWorker(w, [wk[w] EXCEPT !.found = imgs[wk[w].h],
                                  !.pc = IF FinalLogRaises THEN "except_gi" ELSE "bif"])
    /\ UNCHANGED <<unitVars, cfgVars, GPU, mainVars, futures, tmpRoot, tmpDirs, idxDirs, bifs>>

\* lines 369-371: the exception of generate_images is caught and logged;
\* os.path.exists(tmp_path)
PI_ExceptImages(w) ==
    /\ wk[w].pc = "except_gi"
    /\ IF wk[w].h \in tmpDirs
       THEN SetWorker(w, [wk[w] EXCEPT !.pc = "rm_gi"])
       ELSE EndPart(w, wk[w].h, "Failed")
    /\ UNCHANGED <<unitVars, cfgVars, GPU, mainVars, futures, fsVars>>

\* another job's transcoder is writing into TMP_FOLDER/<h> right now
WrittenByOther(w, h) ==
    \E v \in Workers : v # w /\ wk[v].pc = "run" /\ wk[v].h = h

\* lines 372-373: shutil.rmtree(tmp_path) removes the directory; continue
PI_RmtreeImagesOk(w) ==
    /\ wk[w].pc = "rm_gi"
    /\ wk[w].h \in tmpDirs
    /\ tmpDirs' = tmpDirs \ {wk[w].h}
    /\ imgs' = [imgs EXCEPT ![wk[w].h] = 0]
    /\ EndPart(w, wk[w].h, "Failed")
    /\ UNCHANGED <<unitVars, cfgVars, GPU, mainVars, futures, tmpRoot, idxDirs, bifs>>

\* line 372: shutil.rmtree(tmp_path) raises FileNotFoundError: the directory
\* was removed after line 371; the exception leaves process_item
PI_RmtreeImagesGone(w) ==
    /\ wk[w].pc = "rm_gi"
    /\ wk[w].h \notin tmpDirs
    /\ FinishJob(w, "raised")
    /\ UNCHANGED <<unitVars, cfgVars, GPU, mainVars, fsVars>>

\* line 372: shutil.rmtree(tmp_path) raises OSError (directory not empty): a
\* file was written between its listing and its rmdir; the directory stays and
\* the exception leaves process_item
PI_RmtreeImagesBusy(w) ==
    /\ wk[w].pc = "rm_gi"
    /\ wk[w].h \in tmpDirs
    /\ WrittenByOther(w, wk[w].h)
    /\ FinishJob(w, "raised")
    /\ UNCHANGED <<unitVars, cfgVars, GPU, mainVars, fsVars>>

\* lines 340, 346, 358, 365, 373: continue with the next MediaPart
PI_Continue(w) ==
    /\ wk[w].pc = "end"
    /\ SetWorker(w, [IdleWorker EXCEPT !.pc = "part", !.job = wk[w].job])
    /\ UNCHANGED <<unitVars, cfgVars, GPU, mainVars, futures, fsVars>>

\* ----------------------------------------------------------- specification

WorkerStep(w) ==
    \/ TakeJob(w)
    \/ PI_LoopEnd(w)
    \/ PI_NoHash(w)
    \/ PI_FilterMismatch(w)
    \/ PI_FilterReturn(w)
    \/ PI_FileMissing(w)
    \/ PI_BadHash(w)
    \/ PI_ContainerCheck(w)
    \/ PI_IdxCheck(w)
    \/ PI_MkIdxOk(w)
    \/ PI_MkIdxFail(w)
    \/ PI_TmpCheck(w)
    \/ PI_MkTmpOk(w)
    \/ PI_MkTmpFail(w)
    \/ GI_SetupRaises(w)
    \/ GI_Admit(w)
    \/ GI_Popen(w)
    \/ GI_ReadStderr(w)
    \/ GI_RenameAndLog(w)
    \/ PI_ExceptImages(w)
    \/ PI_RmtreeImagesOk(w)
    \/ PI_RmtreeImagesGone(w)
    \/ PI_RmtreeImagesBusy(w)
    \/ PI_Continue(w)

Next ==
    \/ ImportChecks
    \/ MainChecks
    \/ DetectGpu
    \/ PurgeStart
    \/ RunSkipSection
    \/ RunSection
    \/ RunReturn
    \/ AwaitResult
    \/ AwaitEnd
    \/ PoolShutdown
    \/ FinalPurge
    \/ \E w \in Workers : WorkerStep(w)

Spec == Init /\ [][Next]_vars

\* the steps of the main script
MainStep ==
    \/ ImportChecks \/ MainChecks \/ DetectGpu \/ PurgeStart \/ RunSkipSection
    \/ RunSection \/ RunReturn \/ AwaitResult \/ AwaitEnd \/ PoolShutdown \/ FinalPurge

\* What the scheduling of the processes gives: the main process and every
\* worker process of the pool keep running (weak fairness of their steps; for
\* GI_ReadStderr this is the premise that every transcoder invocation ends).
\* The list of sections (line 395) and the list of MediaParts of an item (line
\* 329) are finite: a loop that comes back to its head again and again leaves
\* it at last (strong fairness of RunReturn and PI_LoopEnd).
Fairness ==
    /\ WF_vars(MainStep)
    /\ SF_vars(RunReturn)
    /\ \A w \in Workers : WF_vars(WorkerStep(w)) /\ SF_vars(PI_LoopEnd(w))

LiveSpec == Spec /\ Fairness

\* ----------------------------------------- rename loop and generate_bif
\* The rename loop of generate_images (lines 267-271) followed by generate_bif
\* (lines 280-319), taken alone as functions of the frames the transcoder
\* left in output_folder and of PLEX_BIF_FRAME_INTERVAL.

MaxBifFrames == 3    \* largest number of frames the transcoder leaves

\* Byte counts and field values are Python integers, which struct.pack("<I")
\* accepts only below 2^32.  They are kept as pairs <<hi, lo>> standing for
\* hi * 2^16 + lo, exact beyond 2^32.
Half == 2^16
Big(n) == <<n \div Half, n % Half>>
BigAdd(a, b) == <<a[1] + b[1] + ((a[2] + b[2]) \div Half), (a[2] + b[2]) % Half>>
\* struct.pack("<I", v) raises struct.error unless 0 <= v < 2^32
FitsU32(a) == a[1] < Half
\* line 311: 0xffffffff
AllOnes == <<Half - 1, Half - 1>>

\* The sizes a frame file can have: nothing at all (the transcoder created the
\* file and could not write it), ordinary sizes, and 2^31 bytes.
FrameSizes == {Big(0), Big(100), Big(150), Big(200), <<2^15, 0>>}

\* the values of PLEX_BIF_FRAME_INTERVAL (line 37) explored
Intervals == {1, 5, 10}

\* File names are sequences of characters; Alphabet lists the characters that
\* occur in them in their code order, the order str comparison uses.
Alphabet == <<"-", ".", "0", "1", "2", "3", "4", "5", "6", "7", "8", "9",
              "g", "i", "j", "m", "p">>
Ord(c) == CHOOSE i \in 1..Len(Alphabet) : Alphabet[i] = c
DigitChars == <<"0", "1", "2", "3", "4", "5", "6", "7", "8", "9">>
IsDigit(c) == \E d \in 1..Len(DigitChars) : DigitChars[d] = c
DotJpg == <<".", "j", "p", "g">>

\* str(v) for an integer v >= 0
RECURSIVE Decimal(_)
Decimal(v) ==
    IF v < 10 THEN <<DigitChars[v + 1]>>
    ELSE Decimal(v \div 10) \o <<DigitChars[(v % 10) + 1]>>

\* '{:0<w>d}'.format(v), '%0<w>d' for v >= 0: zeros on the left up to width
\* w, nothing cut off
ZeroPad(v, w) ==
    LET d == Decimal(v)
    IN  IF Len(d) >= w THEN d ELSE [i \in 1..(w - Len(d)) |-> "0"] \o d

\* line 190: the transcoder's name of its n-th frame, 'img-%06d.jpg'
ImgName(n) == <<"i", "m", "g", "-">> \o ZeroPad(n, 6) \o DotJpg

\* str.strip(chars): leading and trailing characters of the set are removed
RECURSIVE LStrip(_, _)
LStrip(t, chars) ==
    IF t # <<>> /\ Head(t) \in chars THEN LStrip(Tail(t), chars) ELSE t
RECURSIVE RStrip(_, _)
RStrip(t, chars) ==
    IF t # <<>> /\ t[Len(t)] \in chars THEN RStrip(SubSeq(t, 1, Len(t) - 1), chars) ELSE t
Strip(t, chars) == RStrip(LStrip(t, chars), chars)

\* int(t) for a string of decimal digits (anything else raises ValueError)
IsNumber(t) == t # <<>> /\ \A i \in 1..Len(t) : IsDigit(t[i])
RECURSIVE ParseInt(_)
ParseInt(t) ==
    IF t = <<>> THEN 0
    ELSE 10 * ParseInt(SubSeq(t, 1, Len(t) - 1)) + (Ord(t[Len(t)]) - Ord("0"))

\* line 269: the text handed to int()
FrameNoText(name) == Strip(Strip(name, {"-", "i", "m", "g"}), {".", "j", "p", "g"})

\* (variant: the new name is not padded)
RenamedUnpadded(name, interval) ==
    Decimal((ParseInt(FrameNoText(name)) - 1) * interval) \o DotJpg
\* lines 269-271: the name a frame file is renamed to
Renamed(name, interval) ==
    ZeroPad((ParseInt(FrameNoText(name)) - 1) * interval, 10) \o DotJpg

\* line 268: glob 'img*.jpg'
MatchesImg(name) ==
    /\ Len(name) >= 7
    /\ SubSeq(name, 1, 3) = <<"i", "m", "g">>
    /\ SubSeq(name, Len(name) - 3, Len(name)) = DotJpg

\* line 289: os.path.splitext(img)[1] == '.jpg'
IsJpg(name) == Len(name) > 4 /\ SubSeq(name, Len(name) - 3, Len(name)) = DotJpg

\* str comparison, as list.sort() applies it (line 290)
LexLess(a, b) ==
    \E i \in 1..(Len(a) + 1) :
        /\ i <= Len(b)
        /\ \A j \in 1..(i - 1) : a[j] = b[j]
        /\ (i > Len(a) \/ Ord(a[i]) < Ord(b[i]))

\* lines 289-290: the .jpg names of a directory, sorted
SortedNames(dir) ==
    LET names == {f.name : f \in {g \in dir : IsJpg(g.name)}}
    IN  CHOOSE q \in [1..Cardinality(names) -> names] :
            \A i \in 1..Cardinality(names), j \in 1..Cardinality(names) :
                i < j => LexLess(q[i], q[j])

\* every variable of the whole program
progVars == <<cfgVars, GPU, mainVars, futures, wk, fsVars>>

\* the whole program is not running
ProgramOff ==
    /\ PLEX_URL = "" /\ PLEX_TOKEN = "" /\ mediaRoot = "absent"
    /\ CPU_THREADS = 0 /\ GPU_THREADS = 0 /\ GPU = "Unset"
    /\ mainpc = "off" /\ exitCode = NoExit /\ runExc = FALSE
    /\ futures = <<>> /\ awaitIdx = 0
    /\ wk = [w \in Workers |-> IdleWorker]
    /\ tmpRoot = FALSE /\ tmpDirs = {}
    /\ imgs = [h \in Hashes |-> 0]
    /\ idxDirs = {} /\ bifs = {}

\* The written file, as the sequence of its pieces: t is "magic" (8 bytes),
\* "u32" (a 4-byte field holding v), "zeros" (44 bytes) or "data" (the v bytes
\* of the frame the transcoder wrote as its frame-th output)
Piece(t, v, frame) == [t |-> t, v |-> v, frame |-> frame]
U32(v) == Piece("u32", v, 0)
PieceLen(c) ==
    IF c.t = "magic" THEN Big(8)
    ELSE IF c.t = "u32" THEN Big(4)
    ELSE IF c.t = "zeros" THEN Big(64 - 20)
    ELSE c.v

\* the file of output_folder called name
FileNamed(dir, name) == CHOOSE f \in dir : f.name = name

\* output_folder as the transcoder leaves it: frames 1..N under the names of
\* line 190, each of some size (total: N, the number of frames written)
BifInit ==
    /\ ProgramOff
    /\ prog = NoUnit
    /\ \E interval \in Intervals, N \in 0..MaxBifFrames :
         \E size \in [1..N -> FrameSizes] :
            enc = [pc |-> "glob", interval |-> interval, total |-> N,
                   dir |-> {[name |-> ImgName(n), frame |-> n, size |-> size[n]] : n \in 1..N},
                   images |-> <<>>, out |-> <<>>,
                   image_index |-> Big(0), timestamp |-> 0, k |-> 0]

\* lines 268-271: one more file of the glob is renamed (os.rename replaces a
\* file that has the new name already)
GI_RenameImage ==
    /\ enc.pc = "glob"
    /\ \E f \in enc.dir :
         /\ MatchesImg(f.name)
         /\ IsNumber(FrameNoText(f.name))
         /\ LET new == Renamed(f.name, enc.interval)
            IN  enc' = [enc EXCEPT !.dir =
                          {g \in enc.dir : g # f /\ g.name # new}
                              \cup {[f EXCEPT !.name = new]}]
    /\ UNCHANGED <<progVars, prog>>

\* line 268: every file of the glob has been renamed; line 376 calls
\* generate_bif on the directory
GI_RenameEnd ==
    /\ enc.pc = "glob"
    /\ \A f \in enc.dir : ~MatchesImg(f.name)
    /\ enc' = [enc EXCEPT !.pc = "list"]
    /\ UNCHANGED <<progVars, prog>>

\* lines 289-290
BIF_List ==
    /\ enc.pc = "list"
    /\ enc' = [enc EXCEPT !.pc = "header", !.images = SortedNames(enc.dir)]
    /\ UNCHANGED <<progVars, prog>>

\* (variant: the table is sized without its closing entry)
FirstImageIndexShort(n) == 64 + (8 * n)
\* lines 299-300: bif_table_size = 8 + (8 * len(images)); 64 + bif_table_size
FirstImageIndex(n) == 64 + (8 + (8 * n))

\* lines 292-301: magic, version, number of images, interval in ms, padding
BIF_Header ==
    /\ enc.pc = "header"
    /\ LET count == Big(Len(enc.images))
           ms == Big(1000 * enc.interval)
       IN  IF FitsU32(count) /\ FitsU32(ms)
           THEN enc' = [enc EXCEPT
                   !.out = <<Piece("magic", Big(8), 0), U32(Big(0)), U32(count), U32(ms),
                             Piece("zeros", Big(64 - 20), 0)>>,
                   !.image_index = Big(FirstImageIndex(Len(enc.images))),
                   !.timestamp = 0,
                   !.k = 1,
                   !.pc = "index"]
           ELSE enc' = [enc EXCEPT !.pc = "raised"]
    /\ UNCHANGED <<progVars, prog>>

\* lines 304-309: the index entry of the next image; struct.pack raises on an
\* image_index that does not fit, after the timestamp field has been written
BIF_IndexEntry ==
    /\ enc.pc = "index"
    /\ enc.k <= Len(enc.images)
    /\ LET statinfo == FileNamed(enc.dir, enc.images[enc.k])
       IN  IF FitsU32(enc.image_index)
           THEN enc' = [enc EXCEPT
                   !.out = @ \o <<U32(Big(enc.timestamp)), U32(enc.image_index)>>,
                   !.timestamp = @ + 1,
                   !.image_index = BigAdd(@, statinfo.size),
                   !.k = @ + 1]
           ELSE enc' = [enc EXCEPT
                   !.out = @ \o <<U32(Big(enc.timestamp))>>,
                   !.pc = "raised"]
    /\ UNCHANGED <<progVars, prog>>

\* lines 311-312: the closing entry
BIF_Sentinel ==
    /\ enc.pc = "index"
    /\ enc.k > Len(enc.images)
    /\ IF FitsU32(enc.image_index)
       THEN enc' = [enc EXCEPT
               !.out = @ \o <<U32(AllOnes), U32(enc.image_index)>>,
               !.k = 1,
               !.pc = "copy"]
       ELSE enc' = [enc EXCEPT !.out = @ \o <<U32(AllOnes)>>, !.pc = "raised"]
    /\ UNCHANGED <<progVars, prog>>

\* lines 315-317: the bytes of the next image
BIF_CopyImage ==
    /\ enc.pc = "copy"
    /\ enc.k <= Len(enc.images)
    /\ LET f == FileNamed(enc.dir, enc.images[enc.k])
       IN  enc' = [enc EXCEPT !.out = Append(@, Piece("data", f.size, f.frame)),
                              !.k = @ + 1]
    /\ UNCHANGED <<progVars, prog>>

\* line 319
BIF_Close ==
    /\ enc.pc = "copy"
    /\ enc.k > Len(enc.images)
    /\ enc' = [enc EXCEPT !.pc = "closed"]
    /\ UNCHANGED <<progVars, prog>>

BifNext ==
    \/ GI_RenameImage
    \/ GI_RenameEnd
    \/ BIF_List
    \/ BIF_Header
    \/ BIF_IndexEntry
    \/ BIF_Sentinel
    \/ BIF_CopyImage
    \/ BIF_Close

BifSpec == BifInit /\ [][BifNext]_vars

\* ------------------------------------------------------- progress loop
\* The loop of generate_images over the transcoder's diagnostic stream (lines
\* 236-257), taken alone as a function of video_length and of the lines read.

MaxLines == 4        \* largest number of diagnostic lines read

NoToken == -1        \* the line holds no match of the elapsed-time pattern

\* video_length (lines 220-227) in milliseconds; 0: the duration is unknown
Durations == {0, 4000, 100000}

\* elapsed times a line can report, in hundredths of a second (line 238)
Times == {0, 50, 100, 250, 400, 1000}

\* A diagnostic line, as far as lines 238-239 look at it: time is the elapsed
\* time matched (or NoToken), speed tells whether the speed pattern matches
Lines == [time : Times \cup {NoToken}, speed : BOOLEAN]
NoLine == [time |-> NoToken, speed |-> FALSE]

\* line 247 and the int() of line 251: min((current_time / video_length) * 100,
\* 100) cut to an integer, for current_time = c / 100 s and video_length =
\* d / 1000 s (exact arithmetic stands for the floating point one)
IntPercentage(c, d) ==
    LET p == (c * 1000) \div d
    IN  IF p < 100 THEN p ELSE 100

\* (variant: a line is logged as soon as the percentage has not dropped)
AdvancedOrSame(p, last_progress) == p - last_progress >= 0
\* line 251
Advanced(p, last_progress) == p - last_progress >= 1

ProgInit ==
    /\ ProgramOff
    /\ enc = NoUnit
    /\ \E d \in Durations :
         prog = [pc |-> "read", video_length |-> d, last_progress |-> 0,
                 emitted |-> <<>>, line |-> NoLine, n |-> 0]

\* lines 237-257: one more line of the stream is read and handled
GI_ReadLine ==
    /\ prog.pc = "read"
    /\ prog.n < MaxLines
    /\ \E line \in Lines :
         LET match == line.time # NoToken /\ line.speed       \* line 241
             p == IntPercentage(line.time, prog.video_length)
             log == match /\ prog.video_length > 0 /\ Advanced(p, prog.last_progress)
         IN  prog' = [prog EXCEPT
                 !.line = line,
                 !.n = @ + 1,
                 !.emitted = IF log THEN Append(@, p) ELSE @,
                 !.last_progress = IF log THEN p ELSE @]
    /\ UNCHANGED <<progVars, enc>>

\* line 237: the stream ends (the transcoder has closed it)
GI_StderrEnd ==
    /\ prog.pc = "read"
    /\ prog' = [prog EXCEPT !.pc = "eof"]
    /\ UNCHANGED <<progVars, enc>>

ProgNext ==
    \/ GI_ReadLine
    \/ GI_StderrEnd

ProgSpec == ProgInit /\ [][ProgNext]_vars

\* ------------------------------------------------------------ properties

\* the job of worker w holds TMP_FOLDER/<h>: from the makedirs / isdir of lines
\* 361-362 to the end of the part's handling
UsesTmp(r) == r.pc \in {"gi", "popen", "run", "rename", "except_gi", "rm_gi", "bif"}

\* the transcoder of worker w's part has ended and either its exit status is
\* non-zero or the glob of line 268 found no frame
ExtractionFailed(r) ==
    \/ r.exit = 1
    \/ r.exit = 0 /\ r.found = 0 /\ r.pc # "rename"

\* jobs on the hardware path: admitted and not yet past their transcoder
HwJobs == {w \in Workers : wk[w].hw /\ wk[w].pc \in {"popen", "run"}}

\* C1 (as claimed): a part whose transcoder ended with exit status 0 and for
\* which at least one frame was found ends Installed: its index-sd.bif exists
\* and its temp directory is gone.
C1_SuccessInstalls ==
    \A w \in Workers :
        (wk[w].pc = "end" /\ wk[w].exit = 0 /\ wk[w].found >= 1)
            => /\ wk[w].res = "Installed"
               /\ wk[w].h \in bifs
               /\ wk[w].h \notin tmpDirs

\* C2 (as claimed): whenever the handling of a part that holds a temp directory
\* ends, on any path, that temp directory does not exist afterwards.
C2_TempGoneAtEnd ==
    [][\A w \in Workers :
          (UsesTmp(wk[w]) /\ ~UsesTmp(wk'[w])) => wk[w].h \notin tmpDirs']_vars

\* C4: once the transcoder has ended with a non-zero exit status, or no frame
\* was found after it ended, the part is on the failure path only: the encoder
\* is not called, the part ends Failed, and no container exists at its target.
C4_ExtractionFailureFails ==
    \A w \in Workers :
        ExtractionFailed(wk[w])
            => /\ wk[w].pc \in {"rename", "except_gi", "rm_gi", "end"}
               /\ wk[w].pc = "end" => wk[w].res = "Failed"
               /\ wk[w].h \notin bifs

\* C4 witness: a part whose transcoder exited non-zero has ended Failed, and
\* another whose transcoder exited 0 without any frame is in the handler.
C4_Witness ==
    \E w \in Workers, v \in Workers :
        /\ wk[w].pc = "end" /\ wk[w].exit = 1 /\ wk[w].res = "Failed"
        /\ wk[v].pc = "except_gi" /\ wk[v].exit = 0 /\ wk[v].found = 0

\* C5 (as claimed): no exception leaves process_item, and a run whose setup
\* succeeded and whose pool could be created ends with exit code 0.
C5_FailureIsolation ==
    /\ \A i \in 1..Len(futures) : futures[i] # "raised"
    /\ (mainpc = "exit" /\ GPU # "Unset" /\ PoolSize > 0) => exitCode = 0

\* C6: the step in which a job finds a file at the part's index-sd.bif path
\* ends the part at once (Skipped; Failed when the source file is missing) and
\* changes nothing on the filesystem: no directory is created, the transcoder
\* and the encoder are not reached, the container stays as it is.
C6_ExistingContainerSkips ==
    [][\A w \in Workers :
          (wk[w].pc = "part" /\ wk'[w].h \in bifs)
              => /\ wk'[w].pc = "end"
                 /\ wk'[w].res \in {"Skipped", "Failed"}
                 /\ UNCHANGED fsVars]_vars

\* C6 witness: two jobs met the same existing container and both skipped it.
C6_Witness ==
    \E w \in Workers, v \in Workers :
        /\ w # v
        /\ wk[w].pc = "end" /\ wk[w].res = "Skipped" /\ wk[w].h \in bifs
        /\ wk[v].pc = "end" /\ wk[v].res = "Skipped" /\ wk[v].h = wk[w].h

\* C7: a job is on the hardware path only if an accelerator was detected, and
\* never after observing a count >= GPU_THREADS while CPU_THREADS is nonzero.
C7_AdmissionRefusal ==
    \A w \in Workers :
        wk[w].hw
            => /\ GPU \in {"NVIDIA", "AMD"}
               /\ wk[w].seen >= 0
               /\ ~(wk[w].seen >= GPU_THREADS /\ CPU_THREADS # 0)

\* C7 witness: with an accelerator detected and CPU_THREADS nonzero, a job that
\* observed GPU_THREADS >= 1 running accelerated processes was refused.
C7_Witness ==
    \E w \in Workers :
        /\ wk[w].pc = "popen" /\ ~wk[w].hw
        /\ GPU \in {"NVIDIA", "AMD"}
        /\ CPU_THREADS # 0 /\ GPU_THREADS >= 1
        /\ wk[w].seen >= GPU_THREADS

\* C8 (as claimed): with an accelerator detected, a job is admitted to the
\* hardware path whenever CPU_THREADS is 0, whatever the query returned (an
\* empty result included), and whenever the observed count is below GPU_THREADS.
C8_ForcedHardware ==
    \A w \in Workers :
        (/\ wk[w].pc \in {"popen", "run"}
         /\ GPU \in {"NVIDIA", "AMD"}
         /\ \/ CPU_THREADS = 0
            \/ wk[w].seen >= 0 /\ wk[w].seen < GPU_THREADS)
            => wk[w].hw

\* C9: the number of jobs on the hardware path at one time never exceeds the
\* pool size CPU_THREADS + GPU_THREADS.
C9_HwJobsWithinPool == Cardinality(HwJobs) <= CPU_THREADS + GPU_THREADS

\* C9 witness: with CPU_THREADS > 0, more than GPU_THREADS transcoders run on
\* the hardware path at once, every one admitted after observing no running
\* accelerated process at all.
C9_Witness ==
    /\ CPU_THREADS > 0
    /\ Cardinality({w \in Workers : wk[w].pc = "run" /\ wk[w].hw /\ wk[w].seen = 0})
           > GPU_THREADS

\* C10 (as claimed): no two jobs of the pool hold the same temp directory at
\* the same time.
C10_TempDirExclusive ==
    \A w \in Workers, v \in Workers :
        (w # v /\ UsesTmp(wk[w]) /\ UsesTmp(wk[v])) => wk[w].h # wk[v].h

\* pool workers that are executing a job
Busy == {w \in Workers : wk[w].pc # "idle"}

\* C11: at every moment at most CPU_THREADS + GPU_THREADS jobs are in
\* execution, every job in execution is held by exactly one worker and every
\* busy worker holds one job of its own; a worker lets go of its job only when
\* the job's future is completed (returned or raised), and takes a job only
\* when it holds none.
C11_PoolBound ==
    /\ [](/\ Cardinality(Busy) <= CPU_THREADS + GPU_THREADS
          /\ \A w \in Busy : wk[w].job \in 1..Len(futures) /\ futures[wk[w].job] = "running"
          /\ \A w \in Busy, v \in Busy : w # v => wk[w].job # wk[v].job
          /\ \A i \in 1..Len(futures) :
                futures[i] = "running" => \E w \in Busy : wk[w].job = i)
    /\ [][\A w \in Workers :
            wk'[w].job # wk[w].job
                => \/ wk[w].pc = "idle" /\ wk'[w].pc = "part"
                   \/ wk'[w].pc = "idle" /\ futures'[wk[w].job] \in {"done", "raised"}]_vars

\* C11 witness: a pool of one worker is busy with a job while the next future
\* waits, although another worker slot of the model is free.
C11_Witness ==
    /\ CPU_THREADS + GPU_THREADS = 1
    /\ Cardinality(Busy) = 1
    /\ \E i \in 1..Len(futures) : futures[i] = "pending"

\* the future of the i-th job dispatched to the current pool
Dispatched(i) == i <= Len(futures) /\ futures[i] \in {"pending", "running"}
Terminal(i) == i <= Len(futures) /\ futures[i] \in {"done", "raised"}

\* C12: run() has returned (the final purge is due or done) only when no
\* worker holds a job and no dispatched future is pending or running; a
\* dispatched future stops being pending or running only by reaching a
\* terminal state; and, every transcoder ending, the process ends at last
\* (so that, by the first two parts, every dispatched job has reached a
\* terminal state by then).
C12_RunBarrier ==
    /\ []((mainpc \in {"final", "exit"})
            => /\ Busy = {}
               /\ \A i \in 1..Len(futures) : ~Dispatched(i))
    /\ [][\A i \in 1..MaxItems :
            (Dispatched(i) /\ ~Dispatched(i)') => Terminal(i)']_vars
    /\ <>(mainpc = "exit")

\* C12 witness: a future has raised and run() is leaving the pool while a job
\* dispatched after it is still in execution: the barrier is what holds run().
C12_Witness ==
    /\ mainpc = "shutdown" /\ runExc
    /\ \E i \in 1..Len(futures), j \in 1..Len(futures) :
          i < j /\ futures[i] = "raised" /\ futures[j] = "running"

\* C13 (as claimed): a part ends as 'file not found' only when no file exists
\* at the resolved local path of its source, the path the transcoder would be
\* given.
C13_MissingOnResolvedPath ==
    \A w \in Workers :
        (wk[w].pc = "end" /\ wk[w].src # "none") => wk[w].src = "missing"

\* C14: the step in which a job finds that the part's path does not contain
\* the filter changes nothing on the filesystem, and the job's only step after
\* it is its return, which changes nothing on the filesystem either: for this
\* part no directory is created, no transcoder or encoder is started and no
\* container is written.
C14_FilteredPartUntouched ==
    [][\A w \in Workers :
          /\ (wk[w].pc # "mismatch" /\ wk'[w].pc = "mismatch")
                => wk[w].pc = "part" /\ UNCHANGED fsVars
          /\ (wk[w].pc = "mismatch" /\ wk'[w] # wk[w])
                => /\ wk'[w] = IdleWorker
                   /\ futures'[wk[w].job] = "done"
                   /\ UNCHANGED fsVars]_vars

\* C14 witness: a job has found a part outside the filter while another job's
\* transcoder is running.
C14_Witness ==
    \E w \in Workers, v \in Workers :
        /\ wk[w].pc = "mismatch"
        /\ wk[v].pc = "run"

\* the setup precondition fails: the media root or its localhost folder does
\* not exist, or the server URL or the token is empty
SetupFailure ==
    \/ mediaRoot \in {"absent", "bare"}
    \/ PLEX_URL = ""
    \/ PLEX_TOKEN = ""

\* C15: when the media root or its localhost folder is absent, or PLEX_URL or
\* PLEX_TOKEN is empty, the process never gets past the setup checks: no
\* accelerator is detected, no job is dispatched or run, the temp root and
\* everything below it stay as they were found, and the process ends only
\* with exit code 1.
C15_SetupFailureFirst ==
    /\ [](SetupFailure
            => /\ mainpc \in {"import", "checks", "exit"}
               /\ GPU = "Unset"
               /\ futures = <<>> /\ Busy = {}
               /\ mainpc = "exit" => exitCode = 1)
    /\ [][SetupFailure => UNCHANGED fsVars]_vars

\* C15 witness: everything is in place but the token; a temp root left by an
\* earlier run exists; the process has ended with exit code 1.
C15_Witness ==
    /\ mediaRoot = "ok" /\ PLEX_URL # "" /\ PLEX_TOKEN = ""
    /\ tmpRoot
    /\ mainpc = "exit" /\ exitCode = 1

\* ---- the container read back

\* the frames of output_folder in the transcoder's order (by frame number)
FramesInOrder ==
    CHOOSE q \in [1..Cardinality(enc.dir) -> enc.dir] :
        \A i \in 1..Cardinality(enc.dir), j \in 1..Cardinality(enc.dir) :
            i < j => q[i].frame < q[j].frame
NFrames == Cardinality(enc.dir)

\* o_k of the claim: 64 + 8 * (N + 1) plus the sizes of frames 0 .. k-1
RECURSIVE ExpectedOffset(_)
ExpectedOffset(k) ==
    IF k = 0 THEN Big(64 + 8 * (NFrames + 1))
    ELSE BigAdd(ExpectedOffset(k - 1), FramesInOrder[k].size)

\* number of bytes of the first n pieces of the file
RECURSIVE BytesBefore(_)
BytesBefore(n) == IF n = 0 THEN Big(0) ELSE BigAdd(BytesBefore(n - 1), PieceLen(enc.out[n]))

\* header and index table as a reader finds them: the frame count is the third
\* piece, entry k (0 .. count, the last one being the closing entry) is the
\* pair of fields after the 64 bytes of the header
HeaderCount == enc.out[3].v
IndexEntry(k) == <<enc.out[5 + (2 * k) + 1].v, enc.out[5 + (2 * k) + 2].v>>
\* position in the file of the piece that holds frame k's bytes (k from 0)
DataPieceAt(k) == 5 + (2 * (NFrames + 1)) + k + 1

\* the layout the claim describes, of a container generate_bif has closed
Layout ==
    /\ Len(enc.out) = 5 + (2 * (NFrames + 1)) + NFrames
    /\ \A i \in 1..5 : enc.out[i].t = IF i = 1 THEN "magic" ELSE IF i = 5 THEN "zeros" ELSE "u32"
    /\ BytesBefore(5) = Big(64)
    /\ HeaderCount = Big(NFrames)
    /\ \A k \in 0..(NFrames - 1) :
         /\ IndexEntry(k) = <<Big(k), ExpectedOffset(k)>>
         /\ enc.out[DataPieceAt(k)] = Piece("data", FramesInOrder[k + 1].size, FramesInOrder[k + 1].frame)
         /\ BytesBefore(DataPieceAt(k) - 1) = ExpectedOffset(k)
         /\ BytesBefore(DataPieceAt(k)) = ExpectedOffset(k + 1)
    /\ IndexEntry(NFrames) = <<AllOnes, ExpectedOffset(NFrames)>>
    /\ BytesBefore(Len(enc.out)) = ExpectedOffset(NFrames)

EncoderOver == enc.pc \in {"closed", "raised"}
SizesAre(q) ==
    /\ NFrames = Len(q)
    /\ \A k \in 1..Len(q) : FramesInOrder[k].size = Big(q[k])

\* C16 (as claimed): for every frame sequence generate_bif writes a container
\* of the layout described.
C16_EveryFrameSequence == EncoderOver => (enc.pc = "closed" /\ Layout)

\* C16 (amended): for every frame sequence whose container is shorter than
\* 2^32 bytes generate_bif writes the count N, the entries (k, o_k) with
\* o_0 = 64 + 8 * (N + 1) and o_{k+1} = o_k + s_k, the closing entry
\* (0xFFFFFFFF, o_N) with o_N the length of the file, and frame k's bytes at
\* [o_k, o_{k+1}); for every longer one struct.pack raises and generate_bif
\* does not return.  Sizes 100, 200, 150 give (0, 96), (1, 196), (2, 396),
\* (0xFFFFFFFF, 546) and a file of 546 bytes.
C16_IndexOffsets ==
    /\ EncoderOver =>
         IF FitsU32(ExpectedOffset(NFrames))
         THEN enc.pc = "closed" /\ Layout
         ELSE enc.pc = "raised"
    /\ (enc.pc = "closed" /\ SizesAre(<<100, 200, 150>>))
         => /\ IndexEntry(0) = <<Big(0), Big(96)>>
            /\ IndexEntry(1) = <<Big(1), Big(196)>>
            /\ IndexEntry(2) = <<Big(2), Big(396)>>
            /\ IndexEntry(3) = <<AllOnes, Big(546)>>
            /\ BytesBefore(Len(enc.out)) = Big(546)

\* C16 witness: the container of three frames of 100, 200 and 150 bytes has
\* been closed.
C16_Witness == enc.pc = "closed" /\ SizesAre(<<100, 200, 150>>)

\* a < b for byte counts
BigLess(a, b) == a[1] < b[1] \/ (a[1] = b[1] /\ a[2] < b[2])

\* number of index entries of the written file, the closing one included: the
\* 4-byte fields after the three of the header come in pairs
IndexEntries == (Cardinality({i \in 1..Len(enc.out) : enc.out[i].t = "u32"}) - 3) \div 2

\* C17 (as claimed): in every container generate_bif has written, the header
\* frame count is the number of index entries minus one and the number of .jpg
\* files of the temp directory, and the offsets of the index, the closing
\* entry's included, are strictly increasing.
C17_ContainerInvariant ==
    enc.pc = "closed"
        => /\ HeaderCount = Big(IndexEntries - 1)
           /\ HeaderCount = Big(Cardinality({f \in enc.dir : IsJpg(f.name)}))
           /\ \A k \in 0..(IndexEntries - 2) :
                BigLess(IndexEntry(k)[2], IndexEntry(k + 1)[2])

\* the frame file has left the rename loop
IsRenamed(f) == ~MatchesImg(f.name)

\* C18: the transcoder's n-th output is renamed to the 10-digit zero-padded
\* decimal of (n-1) * interval followed by .jpg; no frame is lost and no two
\* frames share a name; the sorted list of generate_bif holds the frames in the
\* order of n; and in the closed container index entry k has ordinal k and
\* its bytes are those of the transcoder's (k+1)-th frame, whose name reads
\* k * interval.
C18_FrameOrder ==
    /\ \A f \in enc.dir :
         IsRenamed(f)
             => /\ Len(f.name) = 10 + Len(DotJpg)
                /\ SubSeq(f.name, 11, Len(f.name)) = DotJpg
                /\ IsNumber(SubSeq(f.name, 1, 10))
                /\ ParseInt(SubSeq(f.name, 1, 10)) = (f.frame - 1) * enc.interval
    /\ {f.frame : f \in enc.dir} = 1..enc.total
    /\ Cardinality({f.name : f \in enc.dir}) = enc.total
    /\ enc.pc \notin {"glob", "list"}
         => /\ Len(enc.images) = enc.total
            /\ \A k \in 1..enc.total : FileNamed(enc.dir, enc.images[k]).frame = k
    /\ enc.pc = "closed"
         => \A k \in 0..(enc.total - 1) :
              /\ IndexEntry(k)[1] = Big(k)
              /\ enc.out[DataPieceAt(k)].frame = k + 1
              /\ ParseInt(SubSeq(enc.images[k + 1], 1, 10)) = k * enc.interval

\* C18 witness: three frames at interval 5 (timestamps 0, 5, 10: without the
\* padding "10" would sort before "5") have been renamed, sorted and written.
C18_Witness ==
    /\ enc.pc = "closed"
    /\ enc.total = 3 /\ enc.interval = 5
    /\ \A f \in enc.dir : IsRenamed(f)

\* C19: the percentages of the progress lines logged for one transcoder run
\* are strictly increasing and lie in 1..100 (so they are at most 100); a line
\* that lacks the elapsed-time token or the speed token changes neither
\* last_progress nor what has been logged; and nothing is logged when the
\* duration is unknown.
C19_ProgressThrottle ==
    /\ [](prog.pc # "off"
            => /\ \A i \in 1..Len(prog.emitted) : prog.emitted[i] \in 1..100
               /\ \A i \in 1..Len(prog.emitted), j \in 1..Len(prog.emitted) :
                     i < j => prog.emitted[i] < prog.emitted[j]
               /\ Len(prog.emitted) <= 100
               /\ prog.video_length = 0 => prog.emitted = <<>>)
    /\ [][(prog.pc # "off" /\ prog'.n # prog.n
              /\ (prog'.line.time = NoToken \/ ~prog'.line.speed))
            => /\ prog'.last_progress = prog.last_progress
               /\ prog'.emitted = prog.emitted]_vars

\* C19 witness: of the lines read, two were logged, the second at 100 percent;
\* the others reported no later time or lacked a token, the last one the speed.
C19_Witness ==
    /\ prog.pc = "eof"
    /\ prog.n = MaxLines
    /\ Len(prog.emitted) = 2 /\ prog.emitted[2] = 100
    /\ prog.line.time # NoToken /\ ~prog.line.speed

\* C20 (as claimed): whatever the part at hand is, the job goes on to the
\* parts that follow it: a job that has found the part at hand outside the
\* filter, while a part fit for extraction follows in the item, next stands
\* at the head of the loop for the following part.
C20_PartsIndependent ==
    [][\A w \in Workers :
          (wk[w].pc = "mismatch" /\ wk[w].more /\ wk'[w] # wk[w])
              => wk'[w].pc = "part" /\ wk'[w].job = wk[w].job]_vars

====
